---------------------------- MODULE Spec2Model ----------------------------
(***************************************************************************)
(* Model of the API client of the Pest-Free web app (apiService.js): the   *)
(* session token (in memory and in AsyncStorage), the transport wrapper    *)
(* request(), the two functions that call fetch() themselves, login, the   *)
(* list operations, the fallback chains that save station logs and         *)
(* visits, and the mutations of appointments and customers.                *)
(*                                                                         *)
(* JavaScript is single-threaded and cooperative: an async function runs   *)
(* without interruption up to its next await.  Every action below is one   *)
(* such run: it starts where a caller invokes an operation or where an     *)
(* awaited promise settles, and ends at the next await or at the return.   *)
(***************************************************************************)
EXTENDS Naturals, Sequences, FiniteSets, TLC

(***************************************************************************)
(* JavaScript values.  null, undefined, numbers, strings, booleans and     *)
(* arrays are one-field tagged records; an object is a record of its own   *)
(* fields.  Object fields hold TLA+ values of one type per field name:     *)
(* success, networkError : BOOLEAN; error, token, role, visitId, message,  *)
(* logId : STRING; status, count : Nat; every other field : a JavaScript   *)
(* value.  A key whose value is undefined is left out of the record,       *)
(* except in the object literal of createAppointment.                      *)
(***************************************************************************)
JSNull == [jsnull |-> TRUE]

JSUndefined == [jsundefined |-> TRUE]

Num(n) == [num |-> n]

Str(s) == [str |-> s]

Bool(b) == [bool |-> b]

Arr(s) == [arr |-> s]

EmptyObject == [f \in {} |-> TRUE]

PrimitiveTags == {"jsnull", "jsundefined", "num", "str", "bool", "arr"}

IsNullish(v) == v = JSNull \/ v = JSUndefined

\* typeof v === 'object' && v !== null && !Array.isArray(v)
IsObject(v) == DOMAIN v \cap PrimitiveTags = {}

\* JavaScript truthiness, as used by `||`, `!` and `if (...)`.
Truthy(v) ==
  IF IsNullish(v) THEN FALSE
  ELSE IF "bool" \in DOMAIN v THEN v.bool
  ELSE IF "num" \in DOMAIN v THEN v.num # 0
  ELSE IF "str" \in DOMAIN v THEN v.str # ""
  ELSE TRUE

\* v.f is defined: v is an object that has the field.  A property read on a
\* number, string, boolean or array of the model yields undefined.
Has(v, f) == IsObject(v) /\ f \in DOMAIN v

\* v.f is truthy, for a boolean field.
FlagSet(v, f) == Has(v, f) /\ v[f] = TRUE

\* v.f is truthy, for a string field.
TextSet(v, f) == Has(v, f) /\ v[f] # ""

(***************************************************************************)
(* The session token.  null is the one value that is no string.            *)
(***************************************************************************)
Null == "<null>"

Tokens == {"t1", "t2"}

\* if (token) ...
TokenTruthy(t) == t # Null /\ t # ""

(***************************************************************************)
(* JSON text.  Stringify writes a value of the model as the text           *)
(* JSON.stringify gives it; JSON.parse is its inverse on the texts of      *)
(* ParseValues and throws on every other text.                             *)
(***************************************************************************)
Quote(s) == "\"" \o s \o "\""

FieldOrder ==
  <<"success", "error", "message", "token", "role", "technician", "customer",
    "visitId", "logId", "id", "count", "data", "customers", "technicians",
    "appointments", "chemicals", "baitTypes", "types", "customerId",
    "customer_id", "customerName", "name", "customer_name", "email",
    "address", "telephone", "complianceValidUntil", "compliance_valid_until",
    "maps">>

BooleanFields == {"success", "networkError"}

NumberFields == {"status", "count"}

StringFields == {"error", "message", "token", "role", "visitId", "logId"}

RECURSIVE FieldsText(_, _, _), ItemsText(_, _), Stringify(_)
FieldsText(o, i, first) ==
  IF i > Len(FieldOrder) THEN ""
  ELSE
    LET f == FieldOrder[i] IN
    IF f \notin DOMAIN o THEN FieldsText(o, i + 1, first)
    ELSE
      LET val == IF f \in BooleanFields THEN (IF o[f] THEN "true" ELSE "false")
                 ELSE IF f \in NumberFields THEN ToString(o[f])
                 ELSE IF f \in StringFields THEN Quote(o[f])
                 ELSE Stringify(o[f])
      IN (IF first THEN "" ELSE ",") \o Quote(f) \o ":" \o val
           \o FieldsText(o, i + 1, FALSE)

\* The elements of an array from the i-th on, separated by commas.
ItemsText(s, i) ==
  IF i > Len(s) THEN ""
  ELSE (IF i = 1 THEN "" ELSE ",") \o Stringify(s[i]) \o ItemsText(s, i + 1)

Stringify(v) ==
  IF v = JSNull THEN "null"
  ELSE IF "bool" \in DOMAIN v THEN (IF v.bool THEN "true" ELSE "false")
  ELSE IF "num" \in DOMAIN v THEN ToString(v.num)
  ELSE IF "str" \in DOMAIN v THEN Quote(v.str)
  ELSE IF "arr" \in DOMAIN v THEN "[" \o ItemsText(v.arr, 1) \o "]"
  ELSE "{" \o FieldsText(v, 1, TRUE) \o "}"


(***************************************************************************)
(* The backend.  A response is a status and a body text, or no response at *)
(* all.  The bodies are the empty text, a text that is no JSON, and the    *)
(* JSON texts of JsonValues: the values JavaScript takes for false, the    *)
(* other primitives, an array, and objects with and without the fields     *)
(* the client reads.                                                       *)
(***************************************************************************)
Roles == {"admin", "tech", "customer", "guest"}

Technician == [id |-> Str("7")]

Customer == [id |-> Str("5")]

\* The bodies a /login route can send with success:true: with or without a
\* token (absent, empty, or a token), a role, and the role's object.
LoginBodies ==
  LET withRole ==
        {[success |-> TRUE, role |-> r] : r \in Roles}
        \cup {[success |-> TRUE, role |-> "tech", technician |-> Technician],
              [success |-> TRUE, role |-> "customer", customer |-> Customer]}
      withToken(o, t) == [f \in DOMAIN o \cup {"token"} |->
                            IF f = "token" THEN t ELSE o[f]]
  IN withRole
       \cup {withToken(o, t) : o \in withRole, t \in Tokens}
       \cup {withToken([success |-> TRUE, role |-> "admin"], "")}

JsonValues ==
  {JSNull, Bool(FALSE), Bool(TRUE), Num(0), Num(5), Str(""), Str("ok"),
   Arr(<<>>), EmptyObject,
   [success |-> TRUE], [success |-> FALSE],
   [error |-> "Not found"], [error |-> ""],
   [success |-> FALSE, error |-> "Invalid email or password"],
   [success |-> TRUE, visitId |-> "v1"], [success |-> TRUE, visitId |-> ""]}
  \cup LoginBodies

NotJsonText == "<html>502 Bad Gateway</html>"

JsonTexts == {Stringify(v) : v \in JsonValues}

(***************************************************************************)
(* The bodies of the list routes.  A raw element is an object with some of *)
(* the fields getCustomers reads, under any of their three spellings; a    *)
(* list has up to MaxItems elements.                                       *)
(***************************************************************************)
MaxItems == 2

AcmeRaw ==
  [id |-> Str("5"), name |-> Str("Acme"),
   compliance_valid_until |-> Str("2025-01-01")]

BoltRaw ==
  [customerId |-> Num(7), id |-> Str("70"), customerName |-> Str("Bolt"),
   name |-> Str("Bolt Ltd"), email |-> Str("bolt@example.com"),
   address |-> Str("1 Main St"), telephone |-> Str("2101234567"),
   complianceValidUntil |-> Str("2026-06-30"),
   maps |-> Arr(<<[id |-> Str("m1")]>>)]

CrowRaw ==
  [customerId |-> JSNull, customer_id |-> Str("9"),
   customer_name |-> Str("Crow"), email |-> JSNull, maps |-> Str("none")]

CustomerRaws == {AcmeRaw, BoltRaw, CrowRaw, EmptyObject}

\* The arrays a list route sends: every sequence of up to MaxItems of the
\* first two raw elements, and each raw element on its own.
Items ==
  UNION {[1..n -> {AcmeRaw, BoltRaw}] : n \in 0..MaxItems}
  \cup {<<c>> : c \in CustomerRaws}

ListFields ==
  {"data", "customers", "technicians", "appointments", "chemicals",
   "baitTypes", "types"}

\* An object with the one field f, and with a success flag beside it.
Only(f, v) == [g \in {f} |-> v]

Flagged(b, f, v) == [g \in {"success", f} |-> IF g = "success" THEN b ELSE v]

ListBodies ==
  {Arr(s) : s \in Items}
  \cup {Only(f, Arr(s)) : f \in ListFields, s \in Items}
  \cup {Flagged(b, f, Arr(s)) : b \in BOOLEAN, f \in ListFields, s \in Items}
  \cup {Only("appointments", Str("none")), Only("data", Str("none")),
        Flagged(TRUE, "customers", JSNull), Arr(<<JSNull>>)}

ListTexts == {Stringify(v) : v \in ListBodies}

\* The bodies of the routes that save station logs and visits.
ChainBodies ==
  {[success |-> TRUE, visitId |-> "v1"], [success |-> TRUE, logId |-> "l1"],
   [success |-> FALSE, error |-> "Route Not Found"],
   [success |-> FALSE, error |-> "Visit already saved"],
   [visitId |-> "v1"], EmptyObject}

ChainTexts == {Stringify(v) : v \in ChainBodies}

\* Every value and every text JSON.parse is used on.
ParseValues == JsonValues \cup ListBodies \cup ChainBodies

ParseTexts == JsonTexts \cup ListTexts \cup ChainTexts

IsJsonText(text) == text \in ParseTexts

\* Each value with its text.
ParsePairs == {<<Stringify(v), v>> : v \in ParseValues}

ParseTable == [text \in ParseTexts |-> (CHOOSE pr \in ParsePairs : pr[1] = text)[2]]

\* JSON.parse(text), for a text that parses.
JSONParse(text) == ParseTable[text]

Texts == {"", NotJsonText} \cup JsonTexts

\* The bodies the model lets /verify-token answer with.
VerifyTexts ==
  {"", NotJsonText}
  \cup {Stringify(v) : v \in {JSNull, Num(5), EmptyObject, [success |-> TRUE],
                              [success |-> FALSE],
                              [success |-> FALSE, error |-> "Invalid email or password"]}}

\* Response.ok: the status is in the range 200-299.
Ok(status) == status >= 200 /\ status <= 299

Statuses == {199, 200, 299, 300, 404, 500}

\* The messages of the errors fetch() and Response.text() reject with.
NetworkErrors == {"Network request failed", "Aborted"}

(***************************************************************************)
(* request(), lines 189-226: what it returns for a response, as pure       *)
(* functions of the status and the body text.                              *)
(***************************************************************************)
\* Fault: lines 193-199 without the inner try/catch; the parse error reaches
\* the catch of lines 219-226.
TryParseUnguarded(text) ==
  IF text = "" THEN [threw |-> FALSE, json |-> JSNull]
  ELSE IF IsJsonText(text) THEN [threw |-> FALSE, json |-> JSONParse(text)]
  ELSE [threw |-> TRUE, json |-> JSNull]

\* Lines 193-199: json = text ? JSON.parse(text) : null, inside its own
\* try/catch, which turns a parse error into json = null.
TryParse(text) ==
  IF text = "" THEN [threw |-> FALSE, json |-> JSNull]
  ELSE IF IsJsonText(text) THEN [threw |-> FALSE, json |-> JSONParse(text)]
  ELSE [threw |-> FALSE, json |-> JSNull]

\* Fault: line 210 without json?.error; the backend's message is dropped.
ErrorTextGeneric(json, status) ==
  "Request failed with status " \o ToString(status)

\* Line 210: json?.error || `Request failed with status ${res.status}`
ErrorText(json, status) ==
  IF TextSet(json, "error") THEN json.error
  ELSE "Request failed with status " \o ToString(status)

\* Lines 207-214: the envelope of a response that is not ok.
FailureEnvelope(status, json) ==
  [success |-> FALSE, error |-> ErrorText(json, status), status |-> status,
   data |-> json]

\* Line 217: return json || { success: true }
SuccessValue(json) == IF Truthy(json) THEN json ELSE [success |-> TRUE]

\* Fault: lines 221-225 without networkError.
NetworkFailureUnflagged(message) == [success |-> FALSE, error |-> message]

\* Lines 219-226: the catch around fetch, text and the classification.
NetworkFailure(message) ==
  [success |-> FALSE, error |-> message, networkError |-> TRUE]

\* Lines 189-217, once the body text has arrived.
Classify(status, text) ==
  LET p == TryParse(text) IN
  IF p.threw THEN NetworkFailure("JSON Parse error")
  ELSE IF ~Ok(status) THEN FailureEnvelope(status, p.json)
  ELSE SuccessValue(p.json)

(***************************************************************************)
(* login, lines 437-463: the value returned once the token is dealt with.  *)
(***************************************************************************)
\* { ..., token: result.token }: the key is left out when result.token is
\* undefined.
WithToken(o, result) ==
  IF Has(result, "token")
    THEN [f \in DOMAIN o \cup {"token"} |->
            IF f = "token" THEN result.token ELSE o[f]]
    ELSE o

\* Fault: lines 437-463 without the tests of the role and of its object.
LoginByRoleUnchecked(result) ==
  IF Has(result, "role")
    THEN WithToken([success |-> TRUE, role |-> result.role], result)
    ELSE [success |-> FALSE, error |-> "Invalid credentials"]

LoginByRole(result) ==
  IF Has(result, "role") /\ result.role = "admin"
    THEN WithToken([success |-> TRUE, role |-> "admin"], result)
  ELSE IF Has(result, "role") /\ result.role = "tech" /\ Has(result, "technician")
    THEN WithToken([success |-> TRUE, role |-> "tech",
                    technician |-> result.technician], result)
  ELSE IF Has(result, "role") /\ result.role = "customer" /\ Has(result, "customer")
    THEN WithToken([success |-> TRUE, role |-> "customer",
                    customer |-> result.customer], result)
  ELSE [success |-> FALSE, error |-> "Invalid credentials"]

(***************************************************************************)
(* The list operations, as pure functions of what request() returned.      *)
(***************************************************************************)
\* Array.isArray(v)
IsArray(v) == "arr" \in DOMAIN v

\* v.f, for a field that holds a JavaScript value.
Field(v, f) == IF Has(v, f) THEN v[f] ELSE JSUndefined

\* Array.isArray(v.f)
ArrayField(v, f) == IsArray(Field(v, f))

\* a ?? b
Coalesce(a, b) == IF IsNullish(a) THEN b ELSE a

\* String(v)
String(v) ==
  IF "str" \in DOMAIN v THEN v.str
  ELSE IF "num" \in DOMAIN v THEN ToString(v.num)
  ELSE IF "bool" \in DOMAIN v THEN (IF v.bool THEN "true" ELSE "false")
  ELSE IF v = JSNull THEN "null"
  ELSE IF v = JSUndefined THEN "undefined"
  ELSE IF IsArray(v) THEN "" ELSE "[object Object]"

\* Fault: lines 514-522 with `||` for `??` and without String().
formattedCustomerLoose(c) ==
  LET or(a, b) == IF Truthy(a) THEN a ELSE b IN
  [customerId |-> or(Field(c, "customerId"),
                     or(Field(c, "id"), or(Field(c, "customer_id"), Str("")))),
   customerName |-> or(Field(c, "customerName"),
                       or(Field(c, "name"),
                          or(Field(c, "customer_name"), Str("Unknown Customer")))),
   email |-> or(Field(c, "email"), Str("")),
   address |-> or(Field(c, "address"), Str("")),
   telephone |-> or(Field(c, "telephone"), Str("")),
   complianceValidUntil |-> or(Field(c, "complianceValidUntil"),
                               or(Field(c, "compliance_valid_until"), JSNull)),
   maps |-> IF ArrayField(c, "maps") THEN c.maps ELSE Arr(<<>>)]

\* Lines 513-522: the record getCustomers makes of the raw element c.
formattedCustomer(c) ==
  [customerId |->
     Str(String(Coalesce(Field(c, "customerId"),
                Coalesce(Field(c, "id"),
                Coalesce(Field(c, "customer_id"), Str("")))))),
   customerName |->
     Coalesce(Field(c, "customerName"),
     Coalesce(Field(c, "name"),
     Coalesce(Field(c, "customer_name"), Str("Unknown Customer")))),
   email |-> Coalesce(Field(c, "email"), Str("")),
   address |-> Coalesce(Field(c, "address"), Str("")),
   telephone |-> Coalesce(Field(c, "telephone"), Str("")),
   complianceValidUntil |->
     Coalesce(Field(c, "complianceValidUntil"),
     Coalesce(Field(c, "compliance_valid_until"), JSNull)),
   maps |-> IF ArrayField(c, "maps") THEN c.maps ELSE Arr(<<>>)]

\* Lines 494-509: the elements getCustomers maps; none when it returns []
\* at line 495.
customersArray(res) ==
  IF Truthy(res) /\ Has(res, "success") /\ res.success = FALSE THEN <<>>
  ELSE IF IsArray(res) THEN res.arr
  ELSE IF Truthy(res) /\ ArrayField(res, "data") THEN res.data.arr
  ELSE IF Truthy(res) /\ ArrayField(res, "customers") THEN res.customers.arr
  ELSE IF Truthy(res) /\ FlagSet(res, "success")
          /\ Truthy(Field(res, "data")) /\ ArrayField(res, "data")
    THEN res.data.arr
  ELSE <<>>

\* Lines 494-533, for elements that are not null.
getCustomers(res) ==
  LET raw == customersArray(res) IN
  Arr([i \in 1..Len(raw) |-> formattedCustomer(raw[i])])

\* Lines 644-662 (getTechnicians, named = "technicians") and lines 946-965
\* (getChemicals, named = "chemicals"), which have the same code.
NamedList(res, named) ==
  IF ~Truthy(res) THEN Arr(<<>>)
  ELSE IF IsArray(res) THEN res
  ELSE IF Truthy(Field(res, named)) /\ ArrayField(res, named) THEN res[named]
  ELSE IF FlagSet(res, "success") /\ ArrayField(res, "data") THEN res.data
  ELSE IF Has(res, "success") /\ res.success = FALSE THEN Arr(<<>>)
  ELSE Arr(<<>>)

getTechnicians(res) == NamedList(res, "technicians")

getChemicals(res) == NamedList(res, "chemicals")

\* normalizeAppointment is imported from ./normalizeAppointment: it makes
\* one normalized record of one raw appointment.
normalizeAppointment(a) == [appointment |-> a]

\* Lines 783-800.
getAppointments(res) ==
  LET appointmentsArray ==
        IF IsArray(res) THEN res.arr
        ELSE IF Truthy(res) /\ ArrayField(res, "appointments")
          THEN res.appointments.arr
        ELSE IF Truthy(res) /\ FlagSet(res, "success") /\ ArrayField(res, "data")
          THEN res.data.arr
        ELSE <<>>
  IN Arr([i \in 1..Len(appointmentsArray) |->
            normalizeAppointment(appointmentsArray[i])])

\* Lines 857-869, for a customerId that is not empty.
getAppointmentsForCustomer(response) ==
  IF IsArray(response) THEN response
  ELSE IF Truthy(Field(response, "appointments")) THEN response.appointments
  ELSE IF FlagSet(response, "success") /\ ArrayField(response, "data")
    THEN response.data
  ELSE Arr(<<>>)

\* Lines 892-918.
getBaitTypes(res) ==
  IF FlagSet(res, "success") /\ ArrayField(res, "baitTypes") THEN res.baitTypes
  ELSE IF IsArray(res) THEN res
  ELSE IF ArrayField(res, "baitTypes") THEN res.baitTypes
  ELSE IF FlagSet(res, "success") /\ ArrayField(res, "data") THEN res.data
  ELSE IF FlagSet(res, "success") /\ ArrayField(res, "types") THEN res.types
  ELSE Arr(<<>>)

\* Lines 1355-1368 and 1370-1383, with `result` what getBaitTypes or
\* getChemicals returned: the names of result[field] when result.success is
\* truthy, and [] otherwise; reading item.name of a null element throws
\* into the catch, which returns [].
Names(result, field) ==
  IF FlagSet(result, "success") /\ ArrayField(result, field)
    THEN LET items == result[field].arr IN
         IF \E i \in 1..Len(items) : IsNullish(items[i])
           THEN Arr(<<>>)
           ELSE Arr([i \in 1..Len(items) |->
                      IF "str" \in DOMAIN items[i] THEN items[i]
                      ELSE IF Truthy(Field(items[i], "name"))
                        THEN items[i].name ELSE items[i]])
    ELSE Arr(<<>>)

getBaitTypeNames(res) == Names(getBaitTypes(res), "types")

getChemicalNames(res) == Names(getChemicals(res), "chemicals")

\* Line 514: c.customerId is a TypeError when the element c is null; no
\* try/catch is around it, so getCustomers rejects.
ListThrows(name, res) ==
  /\ name = "getCustomers"
  /\ \E i \in 1..Len(customersArray(res)) : IsNullish(customersArray(res)[i])

\* What the list operation `name` returns when request() returned res.
ListResult(name, res) ==
  CASE name = "getCustomers" -> getCustomers(res)
    [] name = "getTechnicians" -> getTechnicians(res)
    [] name = "getAppointments" -> getAppointments(res)
    [] name = "getAppointmentsForCustomer" -> getAppointmentsForCustomer(res)
    [] name = "getChemicals" -> getChemicals(res)
    [] name = "getBaitTypes" -> getBaitTypes(res)
    [] name = "getBaitTypeNames" -> getBaitTypeNames(res)
    [] name = "getChemicalNames" -> getChemicalNames(res)

(***************************************************************************)
(* Request payloads.  Every field of a payload holds a JavaScript value;   *)
(* a field an object literal sets to undefined is kept with that value.    *)
(***************************************************************************)
\* a || b
Or(a, b) == IF Truthy(a) THEN a ELSE b

\* { ...o, f: v }
With(o, f, v) == [g \in DOMAIN o \cup {f} |-> IF g = f THEN v ELSE o[g]]

\* s.includes(sub), for the messages of the model: s is sub between two of
\* the fragments the messages are made of.
Fragments == {"", "Request failed with status ", "Route "}

Includes(s, sub) == \E a \in Fragments, b \in Fragments : s = a \o sub \o b

\* The `data` a caller gives logBaitStation: a full station log, and one
\* with the identifiers only.
StationInputs ==
  {[timestamp |-> Num(1700), customerId |-> Str("5"),
    customerName |-> Str("Acme"), stationId |-> Num(3),
    consumption |-> Str("50%"), baitType |-> Str("wax block"),
    condition |-> Str("ok"), access |-> Str("yes"),
    technicianId |-> Str("7"), technicianName |-> Str("Tom"),
    appointmentId |-> Str("12"), visitId |-> Str("v1")],
   [customerId |-> Str("5"), stationId |-> Num(3)]}

\* Lines 1114-1129.
stationData(data) ==
  [timestamp |-> Field(data, "timestamp"),
   customerId |-> Field(data, "customerId"),
   customerName |-> Or(Field(data, "customerName"), Str("")),
   stationId |-> Field(data, "stationId"),
   stationType |-> Str("BS"),
   consumption |-> Or(Field(data, "consumption"), Str("")),
   baitType |-> Or(Field(data, "baitType"), Str("")),
   condition |-> Or(Field(data, "condition"), Str("")),
   access |-> Or(Field(data, "access"), Str("")),
   technicianId |-> Field(data, "technicianId"),
   technicianName |-> Or(Field(data, "technicianName"), Str("")),
   appointmentId |-> Or(Field(data, "appointmentId"), Str("")),
   visitId |-> Field(data, "visitId"),
   isVisitSummary |-> Bool(FALSE)]

\* Lines 1160-1164.
fallbackData(data) ==
  With(With(stationData(data), "action", Str("station-log")),
       "serviceType", Str("myocide"))

\* The arguments a caller gives logCompleteVisit: a summary with valid
\* times, and the stations of the visit.
VisitInputs ==
  {[visitSummary |-> [visitId |-> Str("v1"), customerId |-> Str("5"),
                      startTime |-> Num(1000), endTime |-> Num(2000)],
    stations |-> st] : st \in {<<>>, <<[stationId |-> Num(3)]>>}}

\* Lines 1432-1436.
completeData(visitSummary, stations) ==
  [visitSummary |-> visitSummary, stations |-> Arr(stations),
   action |-> Str("complete-visit")]

\* Lines 1495-1502.
visitData(visitSummary, stations) ==
  With(With(visitSummary, "isVisitSummary", Bool(TRUE)),
       "stationData", [totalStations |-> Num(Len(stations)),
                       loggedStations |-> Num(Len(stations))])

\* Lines 1452-1475: what the try block does with the result of the primary
\* request: it returns a value, or throws an Error with a message.
PrimaryOutcome(r) ==
  IF ~Truthy(r) THEN [threw |-> TRUE, message |-> "No response from server"]
  ELSE IF FlagSet(r, "success") THEN [threw |-> FALSE, value |-> r]
  ELSE IF Has(r, "success")
    THEN [threw |-> TRUE,
          message |-> IF TextSet(r, "error") THEN r.error ELSE "Save failed"]
  ELSE IF TextSet(r, "visitId")
    THEN [threw |-> FALSE, value |-> With(r, "success", TRUE)]
  ELSE [threw |-> TRUE, message |-> "Unexpected response format"]

\* Line 1490: the fallback is tried for a message that mentions a 404.
FallsBack(message) == Includes(message, "404") \/ Includes(message, "Not Found")

\* Lines 1507-1513: the value returned after a fallback that succeeded;
\* visitId is fallbackResult.visitId || fallbackResult.logId.
FallbackSuccess(r) ==
  LET o == [success |-> TRUE, message |-> "Visit saved via fallback"] IN
  IF TextSet(r, "visitId") THEN With(o, "visitId", r.visitId)
  ELSE IF Has(r, "logId") THEN With(o, "visitId", r.logId)
  ELSE IF Has(r, "visitId") THEN With(o, "visitId", r.visitId)
  ELSE o

(***************************************************************************)
(* The mutations, up to their request.                                     *)
(***************************************************************************)
\* { ...o } and delete o.f
Without(o, f) == [g \in DOMAIN o \ {f} |-> o[g]]

\* typeof v === 'object': an object, an array, or null.
TypeofObject(v) == IsObject(v) \/ IsArray(v) \/ v = JSNull

\* The arguments callers give updateAppointment: (id, updates), (id), and
\* one object with or without an id, null, undefined, and a number.
UpdateArguments ==
  LET updates == [status |-> Str("completed")] IN
  {<<Str("12"), updates>>, <<Str("12")>>, <<Str(""), updates>>, <<Str("")>>,
   <<With(updates, "id", Str("12"))>>, <<With(updates, "id", Str(""))>>,
   <<With(updates, "id", JSNull)>>, <<updates>>,
   <<JSNull>>, <<JSUndefined>>, <<Num(12)>>}

\* Lines 805-834: what updateAppointment does with its arguments before any
\* await: it throws, returns, or calls request().
updateAppointment(arguments) ==
  LET appointmentData == arguments[1]
      second == IF Len(arguments) >= 2 THEN arguments[2] ELSE JSUndefined
      call(appointmentId, payload) ==
        IF ~Truthy(appointmentId)
          THEN [does |-> "return",
                value |-> [success |-> FALSE,
                           error |-> "Appointment ID is required"]]
          ELSE [does |-> "request", method |-> "PUT",
                endpoint |-> "/appointments/" \o String(appointmentId),
                body |-> payload]
  IN IF "str" \in DOMAIN appointmentData
       THEN call(appointmentData, Or(second, EmptyObject))
     ELSE IF appointmentData = JSNull
       THEN [does |-> "throw", error |-> "TypeError"]
     ELSE IF TypeofObject(appointmentData)
       THEN call(Field(appointmentData, "id"),
                 IF IsObject(appointmentData)
                   THEN Without(appointmentData, "id") ELSE appointmentData)
     ELSE [does |-> "return",
           value |-> [success |-> FALSE,
                      error |-> "Invalid appointment data format"]]

\* The identifiers callers give the other mutations.
Identifiers == {Str("12"), Str(""), JSNull, JSUndefined}

\* A payload with every field createAppointment reads.
FullPayload ==
  [technicianId |-> Str("7"), customerId |-> Str("5"),
   legacyCustomerKey |-> Str("k5"), date |-> Str("2025-03-01"),
   appointmentDate |-> Str("2025-04-01"), time |-> Str("09:00"),
   appointmentTime |-> Str("10:00"), serviceType |-> Str("myocide"),
   status |-> Str("confirmed"), specialServiceSubtype |-> Str("other"),
   otherPestName |-> Str("wasps"), appointmentCategory |-> Str("first"),
   insecticideDetails |-> Str("gel"), disinfection_details |-> Str("fog"),
   compliance_valid_until |-> Str("2026-01-01"), servicePrice |-> Num(0)]

\* The payloads callers give createAppointment: the full one, and every
\* subset of the fields of SuppliedFields.
SuppliedFields ==
  {"technicianId", "customerId", "date", "appointmentDate", "status",
   "insecticideDetails", "servicePrice"}

CreatePayloads ==
  {FullPayload} \cup {[f \in fs |-> FullPayload[f]] : fs \in SUBSET SuppliedFields}

\* Lines 725-758: the object createAppointment builds of its payload.
appointmentData(payload) ==
  LET literal ==
        [technicianId |-> Field(payload, "technicianId"),
         customerId |-> Or(Field(payload, "customerId"), JSNull),
         legacyCustomerKey |-> Or(Field(payload, "legacyCustomerKey"), JSNull),
         date |-> Or(Field(payload, "date"), Field(payload, "appointmentDate")),
         time |-> Or(Field(payload, "time"), Field(payload, "appointmentTime")),
         serviceType |-> Field(payload, "serviceType"),
         status |-> Or(Field(payload, "status"), Str("scheduled")),
         specialServiceSubtype |->
           Or(Field(payload, "specialServiceSubtype"), JSNull),
         otherPestName |-> Or(Field(payload, "otherPestName"), JSNull),
         appointmentCategory |-> Or(Field(payload, "appointmentCategory"), JSNull),
         insecticideDetails |-> Or(Field(payload, "insecticideDetails"), JSNull),
         disinfection_details |->
           Or(Field(payload, "disinfection_details"), JSNull)]
      added(o, f) == IF Truthy(Field(payload, f)) THEN With(o, f, payload[f]) ELSE o
      price(o) ==
        IF Field(payload, "servicePrice") # JSUndefined
          THEN With(o, "servicePrice", payload.servicePrice) ELSE o
  IN added(added(price(added(literal, "compliance_valid_until")),
                 "insecticideDetails"),
           "disinfection_details")

\* Lines 429-432.
TokenValidationFailed ==
  [success |-> FALSE, error |-> "Token validation failed. Please try again."]

(***************************************************************************)
(* The state.                                                              *)
(***************************************************************************)
\* The operations a caller has started are counted up to MaxCalls.
MaxCalls == 2

Callers == {"a", "b"}

VARIABLES
  authToken,     \* line 9: the module's token, null or a string
  storage,       \* the AsyncStorage item 'authToken', null or a string
  loadpc,        \* lines 12-22, the load at module start: reading, resume, done
  loaded,        \* what its getItem gave
  pc,            \* per caller: the await its operation is suspended at
  op,            \* per caller: the exported operation it called
  arg,           \* per caller: the parameters of the running operation (the
                 \* token of setAuthToken, the data of a mutation)
  result,        \* per caller: what request() returned (login's `result`)
  verification,  \* per caller: login's `verification`
  got,           \* per caller: what the network gave request()
  wire,          \* per caller: the last HTTP request its operation sent
  ret,           \* per caller: how its operation ended
  before,        \* per caller: the token and the stored item at its call
  calls,         \* per caller: the operations called so far, in order
  trail,         \* per caller: the requests its operation has had request()
                 \* make, each with what request() returned for it
  row            \* VisitRow.js, per mounted row: isDownloading, the
                 \* "Download Report" dialogs open, the downloads under way,
                 \* and how the last download settled

vars ==
  <<authToken, storage, loadpc, loaded, pc, op, arg, result, verification,
    got, wire, ret, before, calls, trail, row>>

\* getCurrentToken(), lines 140-142.
getCurrentToken == authToken

NoRequest == [via |-> "none"]

NoResponse == [kind |-> "none"]

NoReturn == [outcome |-> "none"]

Returned(v) == [outcome |-> "returned", value |-> v]

Raised(name) == [outcome |-> "raised", error |-> name]

\* A call of fetch(): `via` is the function whose code calls it, `auth` the
\* Authorization header (Null: no such header), `held` the token in memory
\* when the request is built.
Fetch(via, method, endpoint, auth, body) ==
  [via |-> via, method |-> method, endpoint |-> endpoint, auth |-> auth,
   body |-> body, held |-> authToken]

\* Line 176: ...(authToken ? { Authorization: `Bearer ${authToken}` } : {})
AuthorizationHeader ==
  IF TokenTruthy(authToken) THEN "Bearer " \o authToken ELSE Null

\* Lines 172-187: request() builds its options and calls fetch.
RequestFetch(method, endpoint, body) ==
  Fetch("request", method, endpoint, AuthorizationHeader, body)

\* Lines 149-155: verifyTokenWithBackend calls fetch itself, with a
\* Content-Type header only.
VerifyFetch(token) ==
  Fetch("verifyTokenWithBackend", "POST", "/verify-token", Null,
        [token |-> token])

\* Line 1342: getVisitIdByAppointmentId calls fetch(url) with no options.
VisitIdFetch(appointmentId) ==
  Fetch("getVisitIdByAppointmentId", "GET",
        "/visits/by-appointment/" \o appointmentId, Null, JSNull)

\* The VisitRow components on screen.
Rows == {"r1", "r2"}

\* A row has at most MaxPending dialogs open and downloads under way.
MaxPending == 2

InitCallers ==
  /\ pc = [p \in Callers |-> "idle"]
  /\ op = [p \in Callers |-> "none"]
  /\ arg = [p \in Callers |-> Null]
  /\ result = [p \in Callers |-> JSUndefined]
  /\ verification = [p \in Callers |-> JSUndefined]
  /\ got = [p \in Callers |-> NoResponse]
  /\ wire = [p \in Callers |-> NoRequest]
  /\ ret = [p \in Callers |-> NoReturn]
  /\ before = [p \in Callers |-> [token |-> Null, stored |-> Null]]
  /\ calls = [p \in Callers |-> <<>>]
  /\ trail = [p \in Callers |-> <<>>]
  /\ row = [v \in Rows |->
             [isDownloading |-> FALSE, dialogs |-> 0, downloads |-> 0,
              settled |-> "none"]]

\* The module has just been loaded: the token is null, the startup read of
\* AsyncStorage is under way, and storage holds what an earlier run left.
InitModule ==
  /\ authToken = Null
  /\ storage \in Tokens \cup {Null}
  /\ loadpc = "reading"
  /\ loaded = [threw |-> FALSE, token |-> Null]
  /\ InitCallers

\* The startup read has settled before the first call: the token is the
\* stored one, or null when the read failed.
Init ==
  /\ storage \in Tokens \cup {Null}
  /\ loaded \in {[threw |-> FALSE, token |-> storage], [threw |-> TRUE]}
  /\ authToken = (IF loaded.threw THEN Null ELSE loaded.token)
  /\ loadpc = "done"
  /\ InitCallers

(***************************************************************************)
(* The load at module start, lines 12-22.                                  *)
(***************************************************************************)
\* Line 14: AsyncStorage.getItem reads the item, or fails.
LoadRead ==
  /\ loadpc = "reading"
  /\ loaded' \in {[threw |-> FALSE, token |-> storage], [threw |-> TRUE]}
  /\ loadpc' = "resume"
  /\ UNCHANGED <<authToken, storage, pc, op, arg, result, verification, got,
                 wire, ret, before, calls, trail, row>>

\* Fault: lines 15-18 without the assignment; the stored token is read and
\* dropped.
LoadResumeSkipped ==
  /\ loadpc = "resume"
  /\ authToken' = authToken
  /\ loadpc' = "done"
  /\ UNCHANGED <<storage, loaded, pc, op, arg, result, verification, got,
                 wire, ret, before, calls, trail, row>>

\* Lines 15-21: the function resumes: if (token) authToken = token.
LoadResume ==
  /\ loadpc = "resume"
  /\ authToken' = (IF ~loaded.threw /\ TokenTruthy(loaded.token)
                     THEN loaded.token ELSE authToken)
  /\ loadpc' = "done"
  /\ UNCHANGED <<storage, loaded, pc, op, arg, result, verification, got,
                 wire, ret, before, calls, trail, row>>

(***************************************************************************)
(* Callers.  Begin is a caller invoking an exported operation; Return and  *)
(* Raise are the operation's promise resolving and rejecting.              *)
(***************************************************************************)
\* `sent` is the request the operation sends before its first await.
Begin(p, name, sent) ==
  /\ pc[p] \in {"idle", "done"}
  /\ Len(calls[p]) < MaxCalls
  /\ calls' = [calls EXCEPT ![p] = Append(@, name)]
  /\ before' = [before EXCEPT ![p] = [token |-> authToken, stored |-> storage]]
  /\ op' = [op EXCEPT ![p] = name]
  /\ got' = [got EXCEPT ![p] = NoResponse]
  /\ result' = [result EXCEPT ![p] = JSUndefined]
  /\ verification' = [verification EXCEPT ![p] = JSUndefined]
  /\ wire' = [wire EXCEPT ![p] = sent]
  /\ trail' = [trail EXCEPT ![p] = <<>>]
  /\ UNCHANGED row

Return(p, v) ==
  /\ pc' = [pc EXCEPT ![p] = "done"]
  /\ ret' = [ret EXCEPT ![p] = Returned(v)]

Raise(p, name) ==
  /\ pc' = [pc EXCEPT ![p] = "done"]
  /\ ret' = [ret EXCEPT ![p] = Raised(name)]

\* The operation is suspended at an await and has not ended.
Await(p, at) ==
  /\ pc' = [pc EXCEPT ![p] = at]
  /\ ret' = [ret EXCEPT ![p] = NoReturn]

(***************************************************************************)
(* setAuthToken, lines 113-126, and clearAuthToken, lines 129-137.         *)
(***************************************************************************)
\* Fault: setAuthToken without line 114; the token is only persisted.
SetAuthTokenCallStorageOnly(p, token) ==
  /\ authToken' = authToken
  /\ arg' = [arg EXCEPT ![p] = token]
  /\ Await(p, "set_storage")

\* Lines 114-120: authToken = token, then the await of setItem or
\* removeItem.
SetAuthTokenCall(p, token) ==
  /\ authToken' = token
  /\ arg' = [arg EXCEPT ![p] = token]
  /\ Await(p, "set_storage")

\* Lines 130-132: authToken = null, then the await of removeItem.
ClearAuthTokenCall(p) ==
  /\ authToken' = Null
  /\ Await(p, "clear_storage")

\* Lines 117-125: the write settles.  A write that fails leaves the item as
\* it was, and the catch swallows the error.
StorageAfterSet(token, ok) ==
  IF ~ok THEN storage
  ELSE IF TokenTruthy(token) THEN token ELSE Null

\* Lines 132-136.
StorageAfterClear(ok) == IF ok THEN Null ELSE storage

\* A caller uses the exported setAuthToken(token).
StartSetAuthToken(p, tokens) ==
  \E token \in tokens :
    /\ Begin(p, "setAuthToken", NoRequest)
    /\ SetAuthTokenCall(p, token)
    /\ UNCHANGED <<storage, loadpc, loaded>>

StartClearAuthToken(p) ==
  /\ Begin(p, "clearAuthToken", NoRequest)
  /\ ClearAuthTokenCall(p)
  /\ UNCHANGED <<storage, loadpc, loaded, arg>>

(***************************************************************************)
(* login, lines 397-464, between its awaits.                               *)
(***************************************************************************)
\* Lines 408-414 and 437-463, with `r` what request("POST", "/login")
\* returned: return it when it is not a success; call setAuthToken when it
\* carries a token; otherwise go on to the roles.
LoginAfterRequest(p, r) ==
  IF ~Truthy(r) \/ ~FlagSet(r, "success")
    THEN Return(p, r) /\ UNCHANGED <<authToken, arg>>
  ELSE IF TextSet(r, "token")
    THEN SetAuthTokenCall(p, r.token)
  ELSE Return(p, LoginByRole(r)) /\ UNCHANGED <<authToken, arg>>

\* Lines 417-423, after `await setAuthToken(result.token)`: currentToken =
\* getCurrentToken(); if (currentToken) verifyTokenWithBackend(currentToken).
LoginAfterSet(p) ==
  LET currentToken == getCurrentToken IN
  IF TokenTruthy(currentToken)
    THEN /\ wire' = [wire EXCEPT ![p] = VerifyFetch(currentToken)]
         /\ Await(p, "verify_fetch")
    ELSE /\ Return(p, LoginByRole(result[p]))
         /\ UNCHANGED wire

\* Lines 424-435 and 437-463, with `v` what verifyTokenWithBackend returned.
\* Line 424 reads v.success in a console.log: a TypeError when v is null.
LoginAfterVerify(p, v) ==
  IF IsNullish(v)
    THEN Raise(p, "TypeError") /\ UNCHANGED authToken
  ELSE IF ~FlagSet(v, "success")
    THEN ClearAuthTokenCall(p)
  ELSE Return(p, LoginByRole(result[p])) /\ UNCHANGED authToken

(***************************************************************************)
(* AsyncStorage settles.                                                   *)
(***************************************************************************)
\* Fault: lines 117-125 without the try/catch; a write that fails rejects
\* setAuthToken.
SetItemSettleUncaught(p) ==
  /\ pc[p] = "set_storage"
  /\ \E ok \in BOOLEAN :
       /\ storage' = StorageAfterSet(arg[p], ok)
       /\ IF ~ok THEN Raise(p, "Error") /\ UNCHANGED wire
          ELSE IF op[p] = "login" THEN LoginAfterSet(p)
          ELSE Return(p, JSUndefined) /\ UNCHANGED wire
  /\ UNCHANGED <<authToken, loadpc, loaded, op, arg, result, verification,
                 got, before, calls, trail, row>>

SetItemSettle(p) ==
  /\ pc[p] = "set_storage"
  /\ \E ok \in BOOLEAN : storage' = StorageAfterSet(arg[p], ok)
  /\ IF op[p] = "login"
       THEN LoginAfterSet(p)
       ELSE Return(p, JSUndefined) /\ UNCHANGED wire
  /\ UNCHANGED <<authToken, loadpc, loaded, op, arg, result, verification,
                 got, before, calls, trail, row>>

RemoveItemSettle(p) ==
  /\ pc[p] = "clear_storage"
  /\ \E ok \in BOOLEAN : storage' = StorageAfterClear(ok)
  /\ IF op[p] = "login"
       THEN Return(p, TokenValidationFailed)
       ELSE Return(p, JSUndefined)
  /\ UNCHANGED <<authToken, loadpc, loaded, op, arg, result, verification,
                 got, wire, before, calls, trail, row>>

(***************************************************************************)
(* request(method, endpoint, body), lines 167-227.                         *)
(***************************************************************************)
\* A caller uses the exported request().
StartRequest(p) ==
  \E method \in {"GET", "POST"} :
    /\ Begin(p, "request", RequestFetch(method, "/customers", JSNull))
    /\ Await(p, "fetch")
    /\ UNCHANGED <<authToken, storage, loadpc, loaded, arg>>

\* Line 400: login calls request("POST", "/login", { email, password }).
StartLogin(p) ==
  /\ Begin(p, "login", RequestFetch("POST", "/login",
                                    [email |-> "a@b.c", password |-> "pw"]))
  /\ Await(p, "fetch")
  /\ UNCHANGED <<authToken, storage, loadpc, loaded, arg>>

\* A caller uses one of the list operations, which start with a GET.
StartList(p, name, endpoint) ==
  /\ Begin(p, name, RequestFetch("GET", endpoint, JSNull))
  /\ Await(p, "fetch")
  /\ UNCHANGED <<authToken, storage, loadpc, loaded, arg>>

ListOperations ==
  {"getCustomers", "getTechnicians", "getAppointments",
   "getAppointmentsForCustomer", "getChemicals", "getBaitTypes"}

\* Lines 850-855: getAppointmentsForCustomer(customerId) returns [] at once
\* when customerId is empty, and sends its GET otherwise.
StartGetAppointmentsForCustomer(p, customerId) ==
  IF customerId = ""
    THEN /\ Begin(p, "getAppointmentsForCustomer", NoRequest)
         /\ Return(p, Arr(<<>>))
         /\ UNCHANGED <<authToken, storage, loadpc, loaded, arg>>
    ELSE StartList(p, "getAppointmentsForCustomer",
                   "/appointments?customerId=" \o customerId)

(***************************************************************************)
(* logBaitStation(data), lines 1111-1176.  request() never throws, so the  *)
(* three catch blocks are never entered.                                   *)
(***************************************************************************)
StartLogBaitStation(p) ==
  \E data \in StationInputs :
    /\ Begin(p, "logBaitStation",
             RequestFetch("POST", "/station-logs", stationData(data)))
    /\ arg' = [arg EXCEPT ![p] = data]
    /\ Await(p, "fetch")
    /\ UNCHANGED <<authToken, storage, loadpc, loaded>>

\* Fault: lines 1140 and 1152 without `return result`; the next endpoint is
\* tried after a success too.
LogBaitStationNoStop(p, r) ==
  IF wire[p].endpoint = "/station-logs"
    THEN /\ wire' = [wire EXCEPT ![p] =
                       RequestFetch("POST", "/log-station", stationData(arg[p]))]
         /\ Await(p, "fetch")
  ELSE IF wire[p].endpoint = "/log-station"
    THEN /\ wire' = [wire EXCEPT ![p] =
                       RequestFetch("POST", "/log", fallbackData(arg[p]))]
         /\ Await(p, "fetch")
  ELSE Return(p, r) /\ UNCHANGED wire

\* Lines 1138-1167, with `r` what the request that was under way returned:
\* return a success of the first two endpoints, go on to the next endpoint
\* otherwise, and return what the third gave.
LogBaitStationAfterRequest(p, r) ==
  IF wire[p].endpoint \in {"/station-logs", "/log-station"} /\ FlagSet(r, "success")
    THEN Return(p, r) /\ UNCHANGED wire
  ELSE IF wire[p].endpoint = "/station-logs"
    THEN /\ wire' = [wire EXCEPT ![p] =
                       RequestFetch("POST", "/log-station", stationData(arg[p]))]
         /\ Await(p, "fetch")
  ELSE IF wire[p].endpoint = "/log-station"
    THEN /\ wire' = [wire EXCEPT ![p] =
                       RequestFetch("POST", "/log", fallbackData(arg[p]))]
         /\ Await(p, "fetch")
  ELSE Return(p, r) /\ UNCHANGED wire

(***************************************************************************)
(* logCompleteVisit(visitSummary, stations), lines 1431-1524.              *)
(***************************************************************************)
StartLogCompleteVisit(p) ==
  \E input \in VisitInputs :
    /\ Begin(p, "logCompleteVisit",
             RequestFetch("POST", "/visits/log-complete",
                          completeData(input.visitSummary, input.stations)))
    /\ arg' = [arg EXCEPT ![p] = input]
    /\ Await(p, "fetch")
    /\ UNCHANGED <<authToken, storage, loadpc, loaded>>

\* Lines 1452-1523, with `r` what the request that was under way returned.
\* The Error thrown in the try block has no networkError property, so line
\* 1485 never throws.
LogCompleteVisitAfterRequest(p, r) ==
  IF wire[p].endpoint = "/visits/log-complete"
    THEN LET o == PrimaryOutcome(r) IN
         IF ~o.threw THEN Return(p, o.value) /\ UNCHANGED wire
         ELSE IF FallsBack(o.message)
           THEN /\ wire' = [wire EXCEPT ![p] =
                              RequestFetch("POST", "/log",
                                           visitData(arg[p].visitSummary,
                                                     arg[p].stations))]
                /\ Await(p, "fetch")
         ELSE Raise(p, "Save failed: " \o o.message) /\ UNCHANGED wire
    ELSE IF FlagSet(r, "success")
      THEN Return(p, FallbackSuccess(r)) /\ UNCHANGED wire
    ELSE /\ Raise(p, "Save failed: "
                       \o PrimaryOutcome(trail[p][1].result).message)
         /\ UNCHANGED wire

(***************************************************************************)
(* The mutations: updateAppointment (803-842), deleteAppointment (844-847), *)
(* cancelAppointment (393-395), updateCustomer (544-548), deleteCustomer   *)
(* (587-589) and createAppointment (715-769).  Each returns what its       *)
(* request returned.                                                       *)
(***************************************************************************)
\* A caller uses a mutation that calls request() at once.
StartMutation(p, name, arguments, method, endpoint, body) ==
  /\ Begin(p, name, RequestFetch(method, endpoint, body))
  /\ arg' = [arg EXCEPT ![p] = arguments]
  /\ Await(p, "fetch")
  /\ UNCHANGED <<authToken, storage, loadpc, loaded>>

StartUpdateAppointment(p) ==
  \E arguments \in UpdateArguments :
    LET step == updateAppointment(arguments) IN
    IF step.does = "request"
      THEN StartMutation(p, "updateAppointment", arguments,
                         step.method, step.endpoint, step.body)
      ELSE /\ Begin(p, "updateAppointment", NoRequest)
           /\ arg' = [arg EXCEPT ![p] = arguments]
           /\ IF step.does = "throw"
                THEN Raise(p, step.error) ELSE Return(p, step.value)
           /\ UNCHANGED <<authToken, storage, loadpc, loaded>>

StartDeleteAppointment(p) ==
  \E appointmentId \in Identifiers :
    StartMutation(p, "deleteAppointment", <<appointmentId>>, "DELETE",
                  "/appointments/" \o String(appointmentId), JSNull)

StartCancelAppointment(p) ==
  \E appointmentId \in Identifiers :
    StartMutation(p, "cancelAppointment", <<appointmentId>>, "PUT",
                  "/appointments/" \o String(appointmentId) \o "/cancel", JSNull)

StartUpdateCustomer(p) ==
  \E id \in Identifiers :
    LET data == [telephone |-> Str("2101234567")] IN
    StartMutation(p, "updateCustomer", <<id, data>>, "PUT",
                  "/customers/" \o String(id), data)

StartDeleteCustomer(p) ==
  \E id \in Identifiers :
    StartMutation(p, "deleteCustomer", <<id>>, "DELETE",
                  "/customers/" \o String(id), JSNull)

StartCreateAppointment(p) ==
  \E payload \in CreatePayloads :
    StartMutation(p, "createAppointment", <<payload>>, "POST",
                  "/appointments", appointmentData(payload))

(***************************************************************************)
(* getTotalRequestsToday, lines 244-265, which calls                       *)
(* getTodayCustomerRequestsCount, lines 297-307.  request() never throws,  *)
(* so the catch of lines 261-264 is never entered.                         *)
(***************************************************************************)
\* Line 299: Date.now(), in the cache-busting parameter.
Timestamp == "1700000000000"

\* Lines 302-306: what getTodayCustomerRequestsCount makes of its result.
getTodayCustomerRequestsCount(res) ==
  IF ~Truthy(res) \/ (Has(res, "success") /\ res.success = FALSE)
    THEN [success |-> FALSE, count |-> 0]
    ELSE res

StartGetTotalRequestsToday(p) ==
  /\ Begin(p, "getTotalRequestsToday",
           RequestFetch("GET", "/customer-requests/today-total-count", JSNull))
  /\ Await(p, "fetch")
  /\ UNCHANGED <<authToken, storage, loadpc, loaded, arg>>

\* Fault: lines 256-259 without the fallback; the first result is returned
\* whatever it is.
GetTotalRequestsTodayNoFallback(p, r) ==
  Return(p, r) /\ UNCHANGED wire

\* Lines 251-259 and 300-306, with `r` what the request that was under way
\* returned.
GetTotalRequestsTodayAfterRequest(p, r) ==
  IF wire[p].endpoint = "/customer-requests/today-total-count"
    THEN IF FlagSet(r, "success")
           THEN Return(p, r) /\ UNCHANGED wire
           ELSE /\ wire' = [wire EXCEPT ![p] =
                              RequestFetch("GET",
                                "/admin/customer-requests/today-count?t="
                                  \o Timestamp, JSNull)]
                /\ Await(p, "fetch")
    ELSE Return(p, getTodayCustomerRequestsCount(r)) /\ UNCHANGED wire

\* request() returns `r` to the operation that called it.
AfterRequest(p, r) ==
  /\ result' = [result EXCEPT ![p] = r]
  /\ trail' = [trail EXCEPT ![p] = Append(@, [request |-> wire[p], result |-> r])]
  /\ UNCHANGED row
  /\ CASE op[p] = "login" ->
            LoginAfterRequest(p, r) /\ UNCHANGED wire
       [] op[p] \in ListOperations \cup {"getBaitTypeNames", "getChemicalNames"} ->
            /\ IF ListThrows(op[p], r)
                 THEN Raise(p, "TypeError")
                 ELSE Return(p, ListResult(op[p], r))
            /\ UNCHANGED <<authToken, arg, wire>>
       [] op[p] = "logBaitStation" ->
            LogBaitStationAfterRequest(p, r) /\ UNCHANGED <<authToken, arg>>
       [] op[p] = "logCompleteVisit" ->
            LogCompleteVisitAfterRequest(p, r) /\ UNCHANGED <<authToken, arg>>
       [] op[p] = "getTotalRequestsToday" ->
            GetTotalRequestsTodayAfterRequest(p, r) /\ UNCHANGED <<authToken, arg>>
       [] OTHER ->
            Return(p, r) /\ UNCHANGED <<authToken, arg, wire>>

\* Line 187: fetch resolves with the response's status, or rejects (lines
\* 219-226).
FetchSettle(p, statuses) ==
  /\ pc[p] = "fetch"
  /\ \/ \E e \in NetworkErrors :
          /\ got' = [got EXCEPT ![p] = [kind |-> "rejected", message |-> e]]
          /\ AfterRequest(p, NetworkFailure(e))
     \/ \E status \in statuses :
          /\ got' = [got EXCEPT ![p] = [kind |-> "status", status |-> status]]
          /\ Await(p, "text")
          /\ UNCHANGED <<authToken, arg, result, wire, trail, row>>
  /\ UNCHANGED <<storage, loadpc, loaded, op, verification, before, calls>>

\* Line 190: res.text() resolves with the body, or rejects (lines 219-226).
TextSettle(p, texts) ==
  /\ pc[p] = "text"
  /\ \/ \E e \in NetworkErrors :
          /\ got' = [got EXCEPT ![p] =
                       [kind |-> "rejected", status |-> got[p].status,
                        message |-> e]]
          /\ AfterRequest(p, NetworkFailure(e))
     \/ \E text \in texts :
          /\ got' = [got EXCEPT ![p] =
                       [kind |-> "response", status |-> got[p].status,
                        text |-> text]]
          /\ AfterRequest(p, Classify(got[p].status, text))
  /\ UNCHANGED <<storage, loadpc, loaded, op, verification, before, calls>>

(***************************************************************************)
(* verifyTokenWithBackend(token), lines 145-164, as login calls it.        *)
(***************************************************************************)
\* Lines 157-163: response.json() gives the parsed body whatever the
\* status; when the body is no JSON it rejects, and the catch returns a
\* failure envelope.
VerifyResult(text) ==
  IF IsJsonText(text) THEN JSONParse(text)
  ELSE [success |-> FALSE, error |-> "JSON Parse error"]

\* Line 149: fetch resolves, or rejects into the catch of lines 160-163.
VerifyFetchSettle(p) ==
  /\ pc[p] = "verify_fetch"
  /\ \/ \E e \in NetworkErrors :
          LET v == [success |-> FALSE, error |-> e] IN
          /\ verification' = [verification EXCEPT ![p] = v]
          /\ LoginAfterVerify(p, v)
     \/ /\ Await(p, "verify_json")
        /\ UNCHANGED <<authToken, verification>>
  /\ UNCHANGED <<storage, loadpc, loaded, op, arg, result, got, wire, before, calls, trail, row>>

\* Line 157: response.json() settles.
VerifyJsonSettle(p, texts) ==
  /\ pc[p] = "verify_json"
  /\ \E v \in {VerifyResult(text) : text \in texts}
            \cup {[success |-> FALSE, error |-> e] : e \in NetworkErrors} :
       /\ verification' = [verification EXCEPT ![p] = v]
       /\ LoginAfterVerify(p, v)
  /\ UNCHANGED <<storage, loadpc, loaded, op, arg, result, got, wire, before, calls, trail, row>>

(***************************************************************************)
(* getVisitIdByAppointmentId(appointmentId), lines 1340-1353.              *)
(***************************************************************************)
\* Lines 1343-1352: data = await response.json(); a body that is no JSON,
\* and the TypeError of reading null.success, end in the catch, which
\* returns null.
VisitIdResult(text) ==
  IF ~IsJsonText(text) THEN JSNull
  ELSE LET data == JSONParse(text) IN
       IF IsNullish(data) THEN JSNull
       ELSE IF FlagSet(data, "success") /\ TextSet(data, "visitId")
         THEN Str(data.visitId)
       ELSE JSNull

StartGetVisitId(p) ==
  /\ Begin(p, "getVisitIdByAppointmentId", VisitIdFetch("12"))
  /\ Await(p, "visit_fetch")
  /\ UNCHANGED <<authToken, storage, loadpc, loaded, arg>>

VisitFetchSettle(p) ==
  /\ pc[p] = "visit_fetch"
  /\ \/ Return(p, JSNull)
     \/ Await(p, "visit_json")
  /\ UNCHANGED <<authToken, storage, loadpc, loaded, op, arg, result,
                 verification, got, wire, before, calls, trail, row>>

VisitJsonSettle(p, texts) ==
  /\ pc[p] = "visit_json"
  /\ \E v \in {VisitIdResult(text) : text \in texts} \cup {JSNull} :
       Return(p, v)
  /\ UNCHANGED <<authToken, storage, loadpc, loaded, op, arg, result,
                 verification, got, wire, before, calls, trail, row>>

(***************************************************************************)
(* Specifications.                                                         *)
(*                                                                         *)
(* Spec: one caller, who awaits each operation before starting the next,   *)
(* after the startup load has settled, against a backend that may answer   *)
(* with any status and any body of Texts.                                  *)
(*                                                                         *)
(* SpecConc: the module from its load on, with two callers whose           *)
(* operations interleave at their awaits, against a backend that answers   *)
(* with the statuses and bodies of ConcStatuses and ConcTexts.             *)
(***************************************************************************)
\* What a caller's next step can be, against the backend `env`: the
\* statuses, the bodies and the /verify-token bodies it answers with.
Settle(p, env) ==
  \/ SetItemSettle(p)
  \/ RemoveItemSettle(p)
  \/ FetchSettle(p, env.statuses)
  \/ TextSettle(p, env.texts)
  \/ VerifyFetchSettle(p)
  \/ VerifyJsonSettle(p, env.vtexts)

AnyBackend ==
  [statuses |-> Statuses, texts |-> Texts, vtexts |-> VerifyTexts]

Next ==
  \/ StartSetAuthToken("a", Tokens \cup {"", Null})
  \/ StartClearAuthToken("a")
  \/ StartRequest("a")
  \/ StartLogin("a")
  \/ StartGetVisitId("a")
  \/ Settle("a", AnyBackend)
  \/ VisitFetchSettle("a")
  \/ VisitJsonSettle("a", Texts)

Spec == Init /\ [][Next]_vars

\* In SpecConc each caller starts at most MaxConcCalls operations.
MaxConcCalls == 1

ConcBackend ==
  [statuses |-> {200, 401},
   texts |-> {Stringify(v) : v \in
                {[success |-> FALSE],
                 [success |-> TRUE, role |-> "admin", token |-> "t1"],
                 [success |-> TRUE, role |-> "admin", token |-> "t2"]}},
   vtexts |-> {Stringify(v) : v \in {[success |-> TRUE], [success |-> FALSE]}}]

MayCall(p) == Len(calls[p]) < MaxConcCalls

NextConc ==
  \/ LoadRead
  \/ LoadResume
  \/ \E p \in Callers :
       \/ MayCall(p) /\ StartSetAuthToken(p, Tokens \cup {Null})
       \/ MayCall(p) /\ StartClearAuthToken(p)
       \/ MayCall(p) /\ StartRequest(p)
       \/ MayCall(p) /\ StartLogin(p)
       \/ Settle(p, ConcBackend)

SpecConc == InitModule /\ [][NextConc]_vars

\* The process ends and starts again, between two calls: the module is
\* loaded anew (line 9: authToken = null, and the load of lines 12-22
\* starts), and AsyncStorage keeps its item.  What the last call was stays
\* on record.
Restart ==
  /\ loadpc = "done"
  /\ \A p \in Callers : pc[p] \in {"idle", "done"}
  /\ authToken' = Null
  /\ loadpc' = "reading"
  /\ loaded' = [threw |-> FALSE, token |-> Null]
  /\ pc' = [p \in Callers |-> "idle"]
  /\ calls' = [p \in Callers |-> <<>>]
  /\ UNCHANGED <<storage, op, arg, result, verification, got, wire, ret,
                 before, trail, row>>

\* SpecRestart: one caller of setAuthToken and clearAuthToken, who calls
\* once the startup load has settled, and a process that may restart
\* between the calls.
NextRestart ==
  \/ loadpc = "done" /\ StartSetAuthToken("a", Tokens \cup {"", Null})
  \/ loadpc = "done" /\ StartClearAuthToken("a")
  \/ SetItemSettle("a")
  \/ RemoveItemSettle("a")
  \/ Restart
  \/ LoadRead
  \/ LoadResume

SpecRestart == Init /\ [][NextRestart]_vars

\* SpecList: one caller of the list operations, against list routes that
\* answer with the bodies of ListTexts, the empty body, or no JSON.
ListStatuses == {200, 404}

NextList ==
  \/ StartList("a", "getCustomers", "/customers")
  \/ StartList("a", "getTechnicians", "/admin/technicians")
  \/ StartList("a", "getAppointments", "/appointments")
  \/ \E customerId \in {"", "5"} : StartGetAppointmentsForCustomer("a", customerId)
  \/ StartList("a", "getChemicals", "/materials/chemicals")
  \/ StartList("a", "getBaitTypes", "/materials/bait-types")
  \/ StartList("a", "getBaitTypeNames", "/materials/bait-types")
  \/ StartList("a", "getChemicalNames", "/materials/chemicals")
  \/ FetchSettle("a", ListStatuses)
  \/ TextSettle("a", {"", NotJsonText} \cup ListTexts)

\* The list operations neither read nor write the stored item: SpecList
\* starts after a startup load that succeeded.
InitList == Init /\ ~loaded.threw /\ storage \in {Null, "t1"}

SpecList == InitList /\ [][NextList]_vars

\* SpecChain: one caller of the operations that fall back to a second
\* endpoint (saving a station log or a visit, counting today's requests),
\* against routes that answer with the bodies of ChainTexts.
ChainStatuses == {200, 404, 500}

NextChain ==
  \/ StartLogBaitStation("a")
  \/ StartLogCompleteVisit("a")
  \/ StartGetTotalRequestsToday("a")
  \/ FetchSettle("a", ChainStatuses)
  \/ TextSettle("a", {""} \cup ChainTexts)

SpecChain == InitList /\ [][NextChain]_vars

\* SpecMutate: one caller of the mutations, against routes that answer
\* with a success or a failure.
MutateStatuses == {200, 404}

MutateTexts ==
  {""} \cup {Stringify(v) : v \in {[success |-> TRUE], [error |-> "Not found"]}}

NextMutate ==
  \/ StartUpdateAppointment("a")
  \/ StartDeleteAppointment("a")
  \/ StartCancelAppointment("a")
  \/ StartUpdateCustomer("a")
  \/ StartDeleteCustomer("a")
  \/ StartCreateAppointment("a")
  \/ FetchSettle("a", MutateStatuses)
  \/ TextSettle("a", MutateTexts)

SpecMutate == InitList /\ [][NextMutate]_vars

(***************************************************************************)
(* VisitRow.js: the PDF button of a row, its confirmation dialog and the   *)
(* download.  apiService.downloadVisitReportPdf is a promise that resolves *)
(* or rejects.  Alert.alert returns at once and the component keeps no     *)
(* record of an open dialog: the button is disabled by isDownloading only. *)
(***************************************************************************)
\* Lines 107-110 and 23-26: the PDF button is pressed (disabled while
\* isDownloading) and handleDownloadPDF opens the dialog.
PressPdf(v) ==
  /\ ~row[v].isDownloading
  /\ row[v].dialogs + row[v].downloads < MaxPending
  /\ row' = [row EXCEPT ![v].dialogs = @ + 1]
  /\ UNCHANGED <<authToken, storage, loadpc, loaded, pc, op, arg, result,
                 verification, got, wire, ret, before, calls, trail>>

\* Line 27: the dialog's Cancel button; it has no handler.
CancelDialog(v) ==
  /\ row[v].dialogs > 0
  /\ row' = [row EXCEPT ![v].dialogs = @ - 1]
  /\ UNCHANGED <<authToken, storage, loadpc, loaded, pc, op, arg, result,
                 verification, got, wire, ret, before, calls, trail>>

\* Lines 28-39: the dialog's Download button: setIsDownloading(true), then
\* the await of downloadVisitReportPdf.
ConfirmDownload(v) ==
  /\ row[v].dialogs > 0
  /\ row' = [row EXCEPT ![v] = [@ EXCEPT !.dialogs = @ - 1,
                                        !.isDownloading = TRUE,
                                        !.downloads = @ + 1]]
  /\ UNCHANGED <<authToken, storage, loadpc, loaded, pc, op, arg, result,
                 verification, got, wire, ret, before, calls, trail>>

\* Lines 40-44: a download settles; the catch logs a rejection, and the
\* finally runs setIsDownloading(false) either way.
DownloadSettle(v) ==
  /\ row[v].downloads > 0
  /\ \E outcome \in {"resolved", "rejected"} :
       row' = [row EXCEPT ![v] = [@ EXCEPT !.downloads = @ - 1,
                                          !.isDownloading = FALSE,
                                          !.settled = outcome]]
  /\ UNCHANGED <<authToken, storage, loadpc, loaded, pc, op, arg, result,
                 verification, got, wire, ret, before, calls, trail>>

NextVisitRow ==
  \E v \in Rows :
    \/ PressPdf(v)
    \/ CancelDialog(v)
    \/ ConfirmDownload(v)
    \/ DownloadSettle(v)

\* SpecVisitRow: the rows of a visit list and their user; no apiService
\* operation is under way.
SpecVisitRow == InitList /\ [][NextVisitRow]_vars

(***************************************************************************)
(* Properties.                                                             *)
(***************************************************************************)
Done(p, name) == pc[p] = "done" /\ op[p] = name

\* A failure envelope: an object whose success field is false.
IsFailureEnvelope(v) == Has(v, "success") /\ v.success = FALSE

\* C1: token round-trip.  When a caller's setAuthToken(t) with a non-empty
\* t has completed, getCurrentToken() is t, and when its clearAuthToken()
\* has completed, getCurrentToken() is null, whether the AsyncStorage write
\* succeeded or failed.
C1_TokenRoundTrip ==
  /\ Done("a", "setAuthToken") /\ TokenTruthy(arg["a"])
       => getCurrentToken = arg["a"]
  /\ Done("a", "clearAuthToken") => getCurrentToken = Null

\* setAuthToken(t) and then clearAuthToken() have completed, the removal
\* from AsyncStorage having failed: the item is still t.
C1_Witness ==
  /\ Done("a", "clearAuthToken")
  /\ calls["a"] = <<"setAuthToken", "clearAuthToken">>
  /\ arg["a"] \in Tokens
  /\ storage = arg["a"]
  /\ before["a"].token = arg["a"]
  /\ getCurrentToken = Null

\* login's /login response was a success envelope with a token.
LoginGotToken(p) == FlagSet(result[p], "success") /\ TextSet(result[p], "token")

\* login called verifyTokenWithBackend, and what came back does not report
\* success.
VerificationFailed(p) ==
  /\ wire[p] # NoRequest
  /\ wire[p].via = "verifyTokenWithBackend"
  /\ verification[p] # JSUndefined
  /\ ~FlagSet(verification[p], "success")

\* C2: when /login returns a success envelope with a token and
\* /verify-token does not report success for it, login returns the failure
\* envelope "Token validation failed. Please try again." and
\* getCurrentToken() is null afterwards.
C2_VerificationFailureFailsLogin ==
  Done("a", "login") /\ LoginGotToken("a") /\ VerificationFailed("a")
    => /\ ret["a"] = Returned(TokenValidationFailed)
       /\ getCurrentToken = Null

\* C3: when the /login envelope is a failure, or a success without a token,
\* login returns a failure envelope and leaves the token, in memory and in
\* AsyncStorage, as it was; it never returns success:true then.
C3_NoTokenNoSuccess ==
  Done("a", "login") /\ Has(result["a"], "success") /\ ~LoginGotToken("a")
    => /\ ret["a"].outcome = "returned"
       /\ IsFailureEnvelope(ret["a"].value)
       /\ authToken = before["a"].token
       /\ storage = before["a"].stored

\* C4: login returns success:true only after /verify-token has accepted the
\* token of that login's own /login response, however the call interleaves
\* with other callers' operations.
C4_SuccessOnlyAfterOwnTokenVerified ==
  \A p \in Callers :
    Done(p, "login") /\ ret[p].outcome = "returned"
      /\ FlagSet(ret[p].value, "success")
      => /\ TextSet(result[p], "token")
         /\ wire[p].via = "verifyTokenWithBackend"
         /\ wire[p].body.token = result[p].token
         /\ FlagSet(verification[p], "success")

\* C5: every HTTP request carries Authorization: Bearer <t> with t the
\* token in memory when the request was built, if a token is held, and no
\* Authorization header if none is held.
C5_EveryRequestCarriesToken ==
  \A p \in Callers :
    wire[p] # NoRequest
      => wire[p].auth = (IF TokenTruthy(wire[p].held)
                           THEN "Bearer " \o wire[p].held ELSE Null)

\* C6: every network request of the client is made by request().
C6_OnlyRequestTouchesNetwork ==
  \A p \in Callers : wire[p] # NoRequest => wire[p].via = "request"

\* request() has received a whole response: a status and a body text.
GotResponse(p) == got[p].kind = "response"

\* The parsed body, or null: the body's JSON value when the text is JSON.
ParsedOrNull(text) == IF text \in JsonTexts THEN ParseTable[text] ELSE JSNull

GenericMessage(status) == "Request failed with status " \o ToString(status)

\* C7, as claimed: for every status N that is not 2xx, request() returns
\* {success:false, error, status:N, data}, data the parsed body or null and
\* error the body's `error` field when the body has one, else the generic
\* message.
C7_FailureEnvelopeErrorWhenPresent ==
  \A p \in Callers :
    GotResponse(p) /\ ~Ok(got[p].status)
      => LET json == ParsedOrNull(got[p].text) IN
         result[p] =
           [success |-> FALSE,
            error |-> IF Has(json, "error") THEN json.error
                      ELSE GenericMessage(got[p].status),
            status |-> got[p].status,
            data |-> json]

\* C7, amended: the same, with error the body's `error` field when the body
\* has one that is not empty, else the generic message.
C7_FailureEnvelope ==
  \A p \in Callers :
    GotResponse(p) /\ ~Ok(got[p].status)
      => LET json == ParsedOrNull(got[p].text) IN
         result[p] =
           [success |-> FALSE,
            error |-> IF Has(json, "error") /\ json.error # "" THEN json.error
                      ELSE GenericMessage(got[p].status),
            status |-> got[p].status,
            data |-> json]

\* Status 404 with the body {"error":"Not found"} has come back.
C7_Witness ==
  /\ Done("a", "request")
  /\ GotResponse("a")
  /\ got["a"].status = 404
  /\ got["a"].text = "{\"error\":\"Not found\"}"
  /\ ret["a"] = Returned([success |-> FALSE, error |-> "Not found",
                          status |-> 404, data |-> [error |-> "Not found"]])

\* C8: on a 2xx response request() returns the parsed body when the body
\* parses to an object (an array is one), and {success:true} in every
\* other case: an empty body, a body that is no JSON, a body that parses to
\* null, a number, a string or a boolean.
C8_ObjectOrMinimalEnvelope ==
  \A p \in Callers :
    GotResponse(p) /\ Ok(got[p].status)
      => LET json == ParsedOrNull(got[p].text) IN
         result[p] = IF IsObject(json) \/ "arr" \in DOMAIN json
                       THEN json ELSE [success |-> TRUE]

\* C9: a body that is not valid JSON does not make request() raise: the
\* payload is null, so a status that is not 2xx gives the failure envelope
\* with data:null and the generic message, and a 2xx status gives
\* {success:true}.
C9_UnparsableBodyIsNull ==
  \A p \in Callers :
    GotResponse(p) /\ got[p].text \notin JsonTexts
      => /\ result[p] =
              IF Ok(got[p].status) THEN [success |-> TRUE]
              ELSE [success |-> FALSE,
                    error |-> GenericMessage(got[p].status),
                    status |-> got[p].status, data |-> JSNull]
         /\ Done(p, "request") => ret[p] = Returned(result[p])

\* A 500 whose body is an HTML page has come back.
C9_Witness ==
  /\ Done("a", "request")
  /\ GotResponse("a")
  /\ got["a"].status = 500
  /\ got["a"].text = NotJsonText
  /\ ret["a"].outcome = "returned"

\* C10: when fetch or the reading of the body rejects, request() returns
\* {success:false, error:<message>, networkError:true} and raises nothing.
C10_NetworkFailureEnvelope ==
  \A p \in Callers :
    got[p].kind = "rejected"
      => /\ result[p] = [success |-> FALSE, error |-> got[p].message,
                         networkError |-> TRUE]
         /\ Done(p, "request") => ret[p] = Returned(result[p])

\* The reading of the body of a response has rejected.
C10_Witness ==
  /\ Done("a", "request")
  /\ got["a"].kind = "rejected"
  /\ "status" \in DOMAIN got["a"]
  /\ ret["a"].outcome = "returned"


(***************************************************************************)
(* Properties of the list operations (SpecList).                           *)
(***************************************************************************)
\* The field a list operation looks for its array under.
DomainField(name) ==
  CASE name = "getCustomers" -> "customers"
    [] name = "getTechnicians" -> "technicians"
    [] name \in {"getAppointments", "getAppointmentsForCustomer"} -> "appointments"
    [] name = "getChemicals" -> "chemicals"
    [] name = "getBaitTypes" -> "baitTypes"

\* The four success shapes of the list `s` for the operation `name`.
SuccessShapes(name, s) ==
  {Arr(s), Only("data", Arr(s)), Only(DomainField(name), Arr(s)),
   Flagged(TRUE, "data", Arr(s))}

ReturnedArrayOf(p, n) ==
  /\ ret[p].outcome = "returned"
  /\ IsArray(ret[p].value)
  /\ Len(ret[p].value.arr) = n

\* C11: when request() gave a list operation a list of N elements in any of
\* the four success shapes (bare array, `data`, the domain-named field,
\* success:true with `data`), the operation returns an array of exactly N
\* records.
C11_KnownShapesKeepEveryElement ==
  \A name \in ListOperations \ {"getAppointmentsForCustomer"} :
    \A s \in Items :
      Done("a", name) /\ result["a"] \in SuccessShapes(name, s)
        => ReturnedArrayOf("a", Len(s))

\* request()'s result is in one of the shapes the operation `name` knows.
KnownShape(name, res) ==
  IsArray(res) \/ ArrayField(res, "data") \/ ArrayField(res, DomainField(name))

\* C12: when request() gave a list operation a result with success:false,
\* or one in none of the known shapes, the operation returns the empty
\* array.
C12_FailureOrUnknownShapeIsEmpty ==
  \A name \in ListOperations :
    Done("a", name) /\ Len(trail["a"]) = 1
    /\ (IsFailureEnvelope(result["a"]) \/ ~KnownShape(name, result["a"]))
      => ret["a"] = Returned(Arr(<<>>))

CustomerFields ==
  {"customerId", "customerName", "email", "address", "telephone",
   "complianceValidUntil", "maps"}

\* The text of the first of customerId, id and customer_id that the raw
\* element has with a value other than null, else the empty text.
FirstIdText(c) ==
  LET keys == <<"customerId", "id", "customer_id">>
      present == {i \in 1..3 : Has(c, keys[i]) /\ c[keys[i]] # JSNull}
  IN IF present = {} THEN ""
     ELSE LET first == CHOOSE i \in present : \A j \in present : i <= j
              v == c[keys[first]]
          IN IF "num" \in DOMAIN v THEN ToString(v.num) ELSE v.str

AcmeRecord ==
  [customerId |-> Str("5"), customerName |-> Str("Acme"), email |-> Str(""),
   address |-> Str(""), telephone |-> Str(""),
   complianceValidUntil |-> Str("2025-01-01"), maps |-> Arr(<<>>)]

\* The raw elements, all objects, getCustomers was given as a bare array or
\* under `customers`.
RawCustomers(res) == IF IsArray(res) THEN res.arr ELSE res.customers.arr

GotCustomers(p) ==
  /\ Done(p, "getCustomers")
  /\ result[p] \in {Arr(s) : s \in Items}
                     \cup {Only("customers", Arr(s)) : s \in Items}

\* C13: getCustomers makes of every raw element a record with exactly the
\* fields customerId, customerName, email, address, telephone,
\* complianceValidUntil and maps, where customerId is a string (the text of
\* customerId, else of id, else of customer_id, else empty) and maps is an
\* array; of {id:"5", name:"Acme", compliance_valid_until:"2025-01-01"} it
\* makes the record of the specification's example.
C13_CustomerRecord ==
  GotCustomers("a") =>
    LET raw == RawCustomers(result["a"])
        out == ret["a"].value.arr
    IN /\ ReturnedArrayOf("a", Len(raw))
       /\ \A i \in 1..Len(raw) :
            /\ DOMAIN out[i] = CustomerFields
            /\ DOMAIN out[i].customerId = {"str"}
            /\ out[i].customerId.str = FirstIdText(raw[i])
            /\ IsArray(out[i].maps)
            /\ raw[i] = AcmeRaw => out[i] = AcmeRecord

\* getCustomers has returned the records of a list that holds the example
\* and an element with a numeric customerId.
C13_Witness ==
  /\ GotCustomers("a")
  /\ RawCustomers(result["a"]) = <<AcmeRaw, BoltRaw>>
  /\ ret["a"].value.arr[1] = AcmeRecord
  /\ ret["a"].value.arr[2].customerId = Str("7")


(***************************************************************************)
(* Properties of the fallback chains (SpecChain).                          *)
(***************************************************************************)
\* The requests the running operation of p has sent, in order: those that
\* request() has returned from, and the one under way.
Sent(p) ==
  [i \in 1..Len(trail[p]) |-> trail[p][i].request]
  \o (IF pc[p] \in {"fetch", "text"} THEN <<wire[p]>> ELSE <<>>)

StationChain == <<"/station-logs", "/log-station", "/log">>

\* C14: logBaitStation sends POST /station-logs, POST /log-station and
\* POST /log in this order and nothing else; a request is sent only after
\* every earlier one returned without success, and none after one that
\* returned success; the third carries the payload of the first with
\* action 'station-log' and serviceType 'myocide' added.
C14_StationChainInOrder ==
  op["a"] = "logBaitStation" =>
    LET sent == Sent("a")
        t == trail["a"]
    IN /\ Len(sent) \in 1..3
       /\ \A i \in 1..Len(sent) :
            /\ sent[i].via = "request"
            /\ sent[i].method = "POST"
            /\ sent[i].endpoint = StationChain[i]
       /\ \A i \in 1..Len(t) : FlagSet(t[i].result, "success") => Len(sent) = i
       /\ Len(sent) >= 2 => sent[2].body = sent[1].body
       /\ Len(sent) = 3 =>
            /\ DOMAIN sent[3].body = DOMAIN sent[1].body \cup {"action", "serviceType"}
            /\ \A f \in DOMAIN sent[1].body : sent[3].body[f] = sent[1].body[f]
            /\ sent[3].body.action = Str("station-log")
            /\ sent[3].body.serviceType = Str("myocide")

\* logBaitStation has ended after two failures and a third request.
C14_Witness ==
  /\ Done("a", "logBaitStation")
  /\ Len(trail["a"]) = 3
  /\ ~FlagSet(trail["a"][1].result, "success")
  /\ ~FlagSet(trail["a"][2].result, "success")
  /\ trail["a"][3].request.body.action = Str("station-log")

\* C15: logBaitStation returns the result of the first endpoint that
\* reported success; when none of the three did, it returns a failure
\* envelope whose error is the error of the third attempt.
C15_FirstSuccessOrLastError ==
  Done("a", "logBaitStation") =>
    LET t == trail["a"]
        wins == {i \in 1..Len(t) : FlagSet(t[i].result, "success")}
    IN IF wins # {}
         THEN ret["a"] = Returned(t[CHOOSE i \in wins : \A j \in wins : i <= j].result)
         ELSE /\ Len(t) = 3
              /\ ret["a"].outcome = "returned"
              /\ IsFailureEnvelope(ret["a"].value)
              /\ Has(ret["a"].value, "error")
              /\ Has(t[3].result, "error")
              /\ ret["a"].value.error = t[3].result.error

\* C16: when the primary endpoint of logCompleteVisit gave a failure
\* envelope, whatever its status and error text, POST /log has been tried
\* by the time the operation ends, and a success of /log makes the
\* operation return success.
C16_VisitFallbackOnAnyFailure ==
  Done("a", "logCompleteVisit") /\ IsFailureEnvelope(trail["a"][1].result) =>
    LET t == trail["a"] IN
    /\ Len(t) = 2
    /\ t[2].request.method = "POST"
    /\ t[2].request.endpoint = "/log"
    /\ FlagSet(t[2].result, "success") =>
         ret["a"].outcome = "returned" /\ FlagSet(ret["a"].value, "success")


(***************************************************************************)
(* Properties of login's roles and of the token under storage failures     *)
(* (Spec).                                                                 *)
(***************************************************************************)
\* login got a success with a token, and /verify-token confirmed it.
Verified(p) ==
  /\ Done(p, "login")
  /\ LoginGotToken(p)
  /\ FlagSet(verification[p], "success")

RoleOf(r) == IF Has(r, "role") THEN r.role ELSE ""

\* C17: after a verified successful login response, login returns
\* {success, role, token} for role admin, the same plus technician for
\* role tech with a technician object, the same plus customer for role
\* customer with a customer object, and {success:false, error:"Invalid
\* credentials"} for every other role and for tech or customer without its
\* object.
C17_RoleBranch ==
  Verified("a") =>
    LET r == result["a"] IN
    ret["a"] = Returned(
      IF RoleOf(r) = "admin"
        THEN [success |-> TRUE, role |-> "admin", token |-> r.token]
      ELSE IF RoleOf(r) = "tech" /\ Has(r, "technician")
        THEN [success |-> TRUE, role |-> "tech", token |-> r.token,
              technician |-> r.technician]
      ELSE IF RoleOf(r) = "customer" /\ Has(r, "customer")
        THEN [success |-> TRUE, role |-> "customer", token |-> r.token,
              customer |-> r.customer]
      ELSE [success |-> FALSE, error |-> "Invalid credentials"])

\* A verified login with role tech and no technician object has been
\* refused.
C17_Witness ==
  /\ Verified("a")
  /\ RoleOf(result["a"]) = "tech"
  /\ ~Has(result["a"], "technician")
  /\ ret["a"] = Returned([success |-> FALSE, error |-> "Invalid credentials"])

\* The item setAuthToken(token) leaves in AsyncStorage when its write
\* succeeds.
StoredFor(token) == IF TokenTruthy(token) THEN token ELSE Null

\* The write of the caller's setAuthToken, or of its clearAuthToken, failed:
\* the stored item is not what a write would have left.
SetWriteFailed(p) == storage # StoredFor(arg[p])

ClearWriteFailed(p) == storage # Null

\* C20: when the AsyncStorage write of setAuthToken(t) or of
\* clearAuthToken() fails, the call still completes without raising, the
\* token in memory is t, or null after clearAuthToken, and the request that
\* follows is sent with that token: Authorization is "Bearer t" for a
\* non-empty t and absent otherwise.
C20_StorageFailureSwallowed ==
  /\ Done("a", "setAuthToken") /\ SetWriteFailed("a")
       => ret["a"] = Returned(JSUndefined) /\ getCurrentToken = arg["a"]
  /\ Done("a", "clearAuthToken") /\ ClearWriteFailed("a")
       => ret["a"] = Returned(JSUndefined) /\ getCurrentToken = Null
  /\ calls["a"] = <<"setAuthToken", "request">> /\ SetWriteFailed("a")
       => wire["a"].auth = (IF TokenTruthy(arg["a"])
                              THEN "Bearer " \o arg["a"] ELSE Null)
  /\ calls["a"] = <<"clearAuthToken", "request">> /\ ClearWriteFailed("a")
       => wire["a"].auth = Null

\* A request has been sent with the token of a setAuthToken whose write
\* failed.
C20_Witness ==
  /\ calls["a"] = <<"setAuthToken", "request">>
  /\ arg["a"] = "t2"
  /\ storage = "t1"
  /\ wire["a"].auth = "Bearer t2"


(***************************************************************************)
(* Properties of the mutations (SpecMutate).                               *)
(***************************************************************************)
IdMutations ==
  {"updateAppointment", "deleteAppointment", "cancelAppointment",
   "updateCustomer", "deleteCustomer"}

\* The caller's mutation was called in one of its forms (an id first, or
\* for updateAppointment an object), and the id is absent or empty.
CalledWithoutId(p) ==
  LET first == arg[p][1] IN
  /\ op[p] \in IdMutations
  /\ \/ first \in {JSUndefined, JSNull, Str("")} /\ op[p] # "updateAppointment"
     \/ first = Str("") /\ op[p] = "updateAppointment"
     \/ /\ op[p] = "updateAppointment"
        /\ IsObject(first)
        /\ Field(first, "id") \in {JSUndefined, JSNull, Str("")}

\* C18: a mutation called without its identifier (updateAppointment in
\* both of its forms, deleteAppointment, cancelAppointment, updateCustomer,
\* deleteCustomer) sends no request and returns a failure envelope.
C18_NoIdNoRequest ==
  CalledWithoutId("a") =>
    /\ wire["a"] = NoRequest
    /\ trail["a"] = <<>>
    /\ ret["a"].outcome = "returned"
    /\ IsFailureEnvelope(ret["a"].value)

\* The fields of the object literal of createAppointment that are
\* filled from another key, or with a default, when the payload lacks them.
Supplied(payload, f) ==
  \/ f \in DOMAIN payload
  \/ f = "date" /\ "appointmentDate" \in DOMAIN payload
  \/ f = "time" /\ "appointmentTime" \in DOMAIN payload
  \/ f = "status"

\* C19: no field of the object createAppointment builds and hands to
\* request() is undefined, and every field of it that the caller's payload
\* did not supply is null.
C19_NoUndefinedField ==
  op["a"] = "createAppointment" /\ wire["a"] # NoRequest =>
    LET payload == arg["a"][1]
        built == wire["a"].body
    IN \A f \in DOMAIN built :
         /\ built[f] # JSUndefined
         /\ ~Supplied(payload, f) => built[f] = JSNull


(***************************************************************************)
(* Properties of the token across restarts (SpecRestart).                  *)
(***************************************************************************)
\* The process has restarted after the caller's last call, and the startup
\* load has settled.
Restarted(p) == pc[p] = "idle" /\ op[p] # "none" /\ loadpc = "done"

\* C21: after a completed setAuthToken or clearAuthToken the item in
\* AsyncStorage equals the token in memory, and after a restart and the
\* startup load the token is the last token set, or null when the last
\* call was a clearAuthToken.
C21_TokenSurvivesRestart ==
  /\ Done("a", "setAuthToken") \/ Done("a", "clearAuthToken")
       => storage = StoredFor(authToken)
  /\ Restarted("a") /\ op["a"] = "setAuthToken"
       => authToken = StoredFor(arg["a"])
  /\ Restarted("a") /\ op["a"] = "clearAuthToken" => authToken = Null

\* C21, amended: a completed setAuthToken(t) leaves in AsyncStorage t (no
\* item for an empty t), which is then the token in memory, or, when its
\* write failed, the item that was there before; a completed
\* clearAuthToken leaves no item or, when its write failed, the item that
\* was there before; after a restart and the startup load the token is the
\* stored item, or null when the read failed.
C21_StoredUnlessWriteFails ==
  /\ Done("a", "setAuthToken") =>
       /\ storage \in {StoredFor(arg["a"]), before["a"].stored}
       /\ storage = StoredFor(arg["a"]) => storage = StoredFor(authToken)
  /\ Done("a", "clearAuthToken") => storage \in {Null, before["a"].stored}
  /\ Restarted("a") => authToken = (IF loaded.threw THEN Null ELSE storage)

\* After setAuthToken("t2") over a stored t1 and a restart, the token is
\* t2 again.
C21_Witness ==
  /\ Restarted("a")
  /\ op["a"] = "setAuthToken"
  /\ arg["a"] = "t2"
  /\ before["a"].stored = "t1"
  /\ authToken = "t2"


(***************************************************************************)
(* Properties of the read operations (SpecList).                           *)
(***************************************************************************)
\* C22: no list operation raises to its caller, whatever the backend does:
\* each ends by returning a value.
C22_ReadsNeverRaise ==
  op["a"] \in ListOperations => ret["a"].outcome # "raised"


C24_FailedLoginHoldsNoToken ==
  /\ Done("a", "login")
  /\ ret["a"].outcome = "returned"
  /\ IsFailureEnvelope(ret["a"].value)
  /\ before["a"].token = Null
  /\ before["a"].stored = Null
  => authToken = Null /\ storage = Null

(***************************************************************************)
(* Properties of the load at module start against the calls (SpecConc).    *)
(***************************************************************************)
\* C25: under every interleaving with the load at module start, the token
\* is absent once clearAuthToken has been called and no setAuthToken or
\* login has been called since, and a token set by setAuthToken is not
\* replaced by the persisted one.
C25_LoadNeverUndoesCall ==
  /\ calls["a"] = <<"clearAuthToken">> /\ calls["b"] = <<>>
       => authToken = Null
  /\ calls["a"] = <<"setAuthToken">> /\ arg["a"] \in Tokens
       /\ calls["b"] = <<>>
       => authToken = arg["a"]

(***************************************************************************)
(* Properties of the name lists (SpecList).                                *)
(***************************************************************************)
\* C26: getBaitTypeNames returns one name for each bait type getBaitTypes
\* yields for the same result of request(), and getChemicalNames one for
\* each chemical of getChemicals; so the list of names is non-empty
\* whenever the list it is made of is.
C26_OneNamePerElement ==
  /\ Done("a", "getBaitTypeNames")
       => ReturnedArrayOf("a", Len(getBaitTypes(result["a"]).arr))
  /\ Done("a", "getChemicalNames")
       => ReturnedArrayOf("a", Len(getChemicals(result["a"]).arr))

=============================================================================
